---- MODULE Spec2Model ----
(***************************************************************************)
(* Model of tools/notion_export.py: the inline-run renderer (rt_to_md),    *)
(* the block renderer (block_to_md), the paginating tree fetcher           *)
(* (get_all_children), the page exporter (export_page) and main.           *)
(*                                                                         *)
(* Python strings are sequences of one-character strings.  A Python None   *)
(* in a string-valued slot is the one-element sequence NoneStr, whose      *)
(* element is not a character.  A block type is the sequence of the pieces *)
(* of its name between underscores ("heading_1" is <<"heading", "1">>), so *)
(* that startswith('heading_') and split('_')[1] are computed, not assumed.*)
(***************************************************************************)
EXTENDS Integers, Sequences, FiniteSets, TLC

VARIABLES
    NOTION_KEY,   \* the credential read from the environment at import
    stdin,        \* the JSON object on standard input, as its key/value pairs in text order
    service,      \* the remote service: node id -> (cursor -> page)
    fs,           \* the file system: path -> content, NoFile where there is no file
    dirs,         \* the directories that exist
    pc,           \* position of the process
    mapping,      \* main: the parsed manifest, in iteration order
    i,            \* main: index of the manifest entry being exported
    blocks,       \* export_page: the page's direct children
    j,            \* export_page: index of the direct child being rendered
    md,           \* export_page: the list of rendered pieces
    gac,          \* the running get_all_children call
    events,       \* history: the I/O events of the current run, in order
    calls,        \* history: the get_all_children calls that returned, in order
    stderr,       \* what was printed on the error stream
    exit_code,    \* the exit status, -1 while running
    run,          \* which run of the exporter this is (1 or 2)
    snapshot,     \* history: the file system as the first run left it
    arg,          \* renderer specifications: the argument
    ret           \* renderer specifications: the returned value

vars == <<NOTION_KEY, stdin, service, fs, dirs, pc, mapping, i, blocks, j, md,
          gac, events, calls, stderr, exit_code, run, snapshot, arg, ret>>

progVars == <<NOTION_KEY, stdin, service, fs, dirs, pc, mapping, i, blocks, j, md,
              gac, events, calls, stderr, exit_code, run, snapshot>>

(***************************************************************************)
(* Bounds                                                                  *)
(***************************************************************************)
MaxRuns == 2      \* longest rich_text sequence handed to rt_to_md on its own
MaxFetch == 4     \* requests one get_all_children call may send in the model

(***************************************************************************)
(* Strings                                                                 *)
(***************************************************************************)
NoneStr == <<"<None>">>

\* the backquote character, which a TLA+ string cannot hold
BT == "backquote"

Rep(c, n) == [k \in 1..n |-> c]

IsSpace(c) == c \in {" ", "\n", "\t"}

\* bool(s.strip())
StripTruthy(s) == \E k \in 1..Len(s) : ~IsSpace(s[k])

RECURSIVE RStrip(_)
RStrip(s) ==
    IF s = <<>> THEN s
    ELSE IF IsSpace(s[Len(s)]) THEN RStrip(SubSeq(s, 1, Len(s) - 1))
    ELSE s

RECURSIVE Join(_)
Join(parts) ==
    IF parts = <<>> THEN <<>> ELSE Head(parts) \o Join(Tail(parts))

\* bool(x) for a value that is a string or None
Truthy(s) == s # NoneStr /\ s # <<>>

(***************************************************************************)
(* rt_to_md                                                                *)
(***************************************************************************)
Wrap(l, s, r) == l \o s \o r

\* a plausible slip: bold applied before the code span
rt_one_BoldFirst(rt) ==
    LET t0 == rt.plain_text
        t1 == IF rt.bold THEN Wrap(<<"*", "*">>, t0, <<"*", "*">>) ELSE t0
        t2 == IF rt.code THEN Wrap(<<BT>>, t1, <<BT>>) ELSE t1
        t3 == IF rt.italic THEN Wrap(<<"*">>, t2, <<"*">>) ELSE t2
        t4 == IF rt.strikethrough THEN Wrap(<<"~", "~">>, t3, <<"~", "~">>) ELSE t3
    IN  IF Truthy(rt.href)
        THEN <<"[">> \o t4 \o <<"]", "(">> \o rt.href \o <<")">>
        ELSE t4

rt_one(rt) ==
    LET t0 == rt.plain_text
        t1 == IF rt.code THEN Wrap(<<BT>>, t0, <<BT>>) ELSE t0
        t2 == IF rt.bold THEN Wrap(<<"*", "*">>, t1, <<"*", "*">>) ELSE t1
        t3 == IF rt.italic THEN Wrap(<<"*">>, t2, <<"*">>) ELSE t2
        t4 == IF rt.strikethrough THEN Wrap(<<"~", "~">>, t3, <<"~", "~">>) ELSE t3
    IN  IF Truthy(rt.href)
        THEN <<"[">> \o t4 \o <<"]", "(">> \o rt.href \o <<")">>
        ELSE t4

RECURSIVE rt_to_md(_)
rt_to_md(rich_text) ==
    IF rich_text = <<>> THEN <<>>
    ELSE rt_one(Head(rich_text)) \o rt_to_md(Tail(rich_text))

(***************************************************************************)
(* block_to_md                                                             *)
(***************************************************************************)
Ok(s) == [ok |-> TRUE, s |-> s, err |-> "none"]
Raise(e) == [ok |-> FALSE, s |-> <<>>, err |-> e]

\* int(): the digit strings the model's type names use
IntTable == [d \in {"0", "1", "2", "3", "4"} |->
               CASE d = "0" -> 0 [] d = "1" -> 1 [] d = "2" -> 2 [] d = "3" -> 3 [] d = "4" -> 4]

\* t.startswith('heading_')
StartsWithHeading(t) == Len(t) >= 2 /\ t[1] = "heading"

\* block[t].get('rich_text'), handed to rt_to_md, which reads None as []
RichTextOf(p) == IF p.has_rt THEN p.rich_text ELSE <<>>

\* block[t].get(...): raises when block has no key t, or block[t] is no dict
Payload(block, body) ==
    IF block.payload.kind = "absent" THEN Raise("KeyError")
    ELSE IF block.payload.kind # "dict" THEN Raise("AttributeError")
    ELSE Ok(body)

block_to_md(block, indent) ==
    LET t == block.type
        p == block.payload
        pre == Rep(" ", 2 * indent)
        txt == rt_to_md(RichTextOf(p))
    IN  IF t = NoneStr THEN Raise("AttributeError")
        ELSE IF StartsWithHeading(t) THEN
            IF t[2] \notin DOMAIN IntTable THEN Raise("ValueError")
            ELSE Payload(block, Rep("#", IntTable[t[2]]) \o <<" ">> \o txt \o <<"\n">>)
        ELSE IF t = <<"paragraph">> THEN
            Payload(block, IF StripTruthy(txt) THEN pre \o txt \o <<"\n", "\n">> ELSE <<"\n">>)
        ELSE IF t \in {<<"bulleted", "list", "item">>, <<"numbered", "list", "item">>} THEN
            Payload(block, pre \o (IF t = <<"bulleted", "list", "item">> THEN <<"-">> ELSE <<"1", ".">>)
                               \o <<" ">> \o txt \o <<"\n">>)
        ELSE IF t = <<"to", "do">> THEN
            Payload(block, pre \o <<"-", " ", "[">> \o (IF p.checked THEN <<"x">> ELSE <<" ">>)
                               \o <<"]", " ">> \o txt \o <<"\n">>)
        ELSE IF t = <<"quote">> THEN
            Payload(block, <<">", " ">> \o txt \o <<"\n", "\n">>)
        ELSE IF t = <<"code">> THEN
            Payload(block, <<BT, BT, BT>> \o p.language \o <<"\n">> \o txt
                               \o <<"\n", BT, BT, BT, "\n", "\n">>)
        ELSE IF t = <<"child", "page">> THEN
            Payload(block, <<"-", " ">> \o p.title \o <<"\n">>)
        ELSE IF p.kind = "dict" /\ p.has_rt THEN
            Ok(IF StripTruthy(txt) THEN pre \o txt \o <<"\n", "\n">> ELSE <<>>)
        ELSE Ok(<<>>)

(***************************************************************************)
(* Data of the remote service and of the manifest                          *)
(***************************************************************************)
Run(txt, c, b, it, st, h) ==
    [plain_text |-> txt, code |-> c, bold |-> b, italic |-> it,
     strikethrough |-> st, href |-> h]

PlainRun(txt) == Run(txt, FALSE, FALSE, FALSE, FALSE, NoneStr)

\* the value of block[type]: no such key, a value that is no dict, or a dict
NoPayload ==
    [kind |-> "absent", has_rt |-> FALSE, rich_text |-> <<>>, checked |-> FALSE,
     language |-> <<>>, title |-> <<>>]
OtherPayload == [NoPayload EXCEPT !.kind = "other"]
Dict(has_rt, rich_text, checked, language, title) ==
    [kind |-> "dict", has_rt |-> has_rt, rich_text |-> rich_text, checked |-> checked,
     language |-> language, title |-> title]
Text(rich_text) == Dict(TRUE, rich_text, FALSE, <<>>, <<>>)

Node(id, type, has_children, payload) ==
    [id |-> id, type |-> type, has_children |-> has_children, payload |-> payload]

EnumeratedTypes ==
    {<<"heading", "1">>, <<"heading", "2">>, <<"heading", "3">>, <<"paragraph">>,
     <<"bulleted", "list", "item">>, <<"numbered", "list", "item">>, <<"to", "do">>,
     <<"quote">>, <<"code">>, <<"child", "page">>}

Page(results, has_more, next_cursor) ==
    [results |-> results, has_more |-> has_more, next_cursor |-> next_cursor]

\* the key under which the service keeps a node's first page
First == <<"<first>">>

Entry(id, title, path) == [id |-> id, title |-> title, path |-> path]

B1 == Node("B1", <<"paragraph">>, "true", Text(<<PlainRun(<<"a">>)>>))
B2 == Node("B2", <<"child", "page">>, "true", Dict(FALSE, <<>>, FALSE, <<>>, <<"t">>))
B3 == Node("B3", <<"to", "do">>, "false", Dict(TRUE, <<PlainRun(<<"d">>)>>, TRUE, <<>>, <<>>))
B4 == Node("B4", <<"heading", "1">>, "absent", Text(<<PlainRun(<<"h">>)>>))
B5 == Node("B5", <<"callout">>, "true", Text(<<Run(<<"c">>, FALSE, TRUE, FALSE, FALSE, NoneStr)>>))
B6 == Node("B6", <<"heading", "x">>, "false", Text(<<PlainRun(<<"h">>)>>))
B7 == Node("B7", <<"quote">>, "true", Text(<<PlainRun(<<"q">>)>>))
G1 == Node("G1", <<"bulleted", "list", "item">>, "true", Text(<<PlainRun(<<"g">>)>>))
G2 == Node("G2", <<"paragraph">>, "false", Text(<<PlainRun(<<" ">>)>>))
G3 == Node("G3", <<"paragraph">>, "true", Text(<<PlainRun(<<"n">>)>>))
G4 == Node("G4", <<"numbered", "list", "item">>, "true", Text(<<PlainRun(<<"1">>)>>))
G5 == Node("G5", <<"code">>, "false", Dict(TRUE, <<PlainRun(<<"x">>)>>, FALSE, <<"p", "y">>, <<>>))
G6 == Node("G6", NoneStr, "false", NoPayload)
X1 == Node("X1", <<"paragraph">>, "true", Text(<<PlainRun(<<"z">>)>>))

Cur2 == <<"c", "2">>
Cur3 == <<"c", "3">>

\* every chain of pages ends; grandchildren and a child_page have children of their own
ServiceDeep ==
    [n \in {"P1", "P2", "B1", "B2", "B5", "G1", "G4"} |->
       CASE n = "P1" -> (First :> Page(<<B1, B2>>, "true", Cur2)
                         @@ Cur2 :> Page(<<B3, B5>>, "false", NoneStr))
         [] n = "P2" -> (First :> Page(<<B4>>, "absent", Cur3))
         [] n = "B1" -> (First :> Page(<<G1, G2>>, "false", <<>>))
         [] n = "B2" -> (First :> Page(<<G3>>, "false", NoneStr))
         [] n = "B5" -> (First :> Page(<<G4>>, "true", Cur2)
                         @@ Cur2 :> Page(<<>>, "true", Cur3)
                         @@ Cur3 :> Page(<<G5>>, "false", NoneStr))
         [] n = "G1" -> (First :> Page(<<X1>>, "false", NoneStr))
         [] n = "G4" -> (First :> Page(<<X1>>, "false", NoneStr))]

\* has_more true alongside an empty or a null next_cursor
ServiceNoCursor ==
    [n \in {"P1", "P2"} |->
       CASE n = "P1" -> (First :> Page(<<B3>>, "true", Cur2)
                         @@ Cur2 :> Page(<<B4>>, "true", <<>>))
         [] n = "P2" -> (First :> Page(<<B4>>, "true", NoneStr))]

\* blocks the renderer raises on, at the top level and among the kids
ServiceOdd ==
    [n \in {"P1", "P2", "B7"} |->
       CASE n = "P1" -> (First :> Page(<<B7>>, "false", NoneStr))
         [] n = "P2" -> (First :> Page(<<B4, B6>>, "false", NoneStr))
         [] n = "B7" -> (First :> Page(<<G2, G6>>, "false", NoneStr))]

\* a cursor the service does not know, a node the service does not know
ServiceLost ==
    [n \in {"P1"} |->
       (First :> Page(<<B3>>, "true", Cur3))]

Services == {ServiceDeep, ServiceNoCursor, ServiceOdd, ServiceLost}

PathA == <<"docs", "a.md">>
PathB == <<"docs", "sub", "b.md">>
PathC == <<"c.md">>
Paths == {PathA, PathB, PathC}

Manifests ==
    {<<>>,
     <<Entry("P1", <<"T">>, PathA), Entry("P2", <<"U">>, PathB)>>,
     <<Entry("P2", <<"U">>, PathA), Entry("P1", <<"T">>, PathA),
       Entry("P2", <<"V", " ">>, PathB)>>,
     <<Entry("P2", <<"U">>, PathC), Entry("P1", <<"T">>, PathA)>>}

Keys == {NoneStr, <<>>, <<"k">>}

NoFile == NoneStr

FileSystems ==
    {[p \in Paths |-> NoFile],
     [p \in Paths |-> IF p = PathA THEN <<"o", "l", "d", "\n">> ELSE NoFile]}

(***************************************************************************)
(* The inline-run renderer on its own                                      *)
(***************************************************************************)
Pending == [done |-> FALSE, ok |-> TRUE, s |-> <<>>, err |-> "none"]
Returned(r) == [done |-> TRUE, ok |-> r.ok, s |-> r.s, err |-> r.err]

RunInputs ==
    {Run(<<"a">>, c, b, it, st, h) :
        c \in BOOLEAN, b \in BOOLEAN, it \in BOOLEAN, st \in BOOLEAN,
        h \in {NoneStr, <<>>, <<"u">>}}
    \cup {PlainRun(<<>>), PlainRun(<<" ">>)}

SeqsUpTo(S, n) == UNION {[1..k -> S] : k \in 0..n}

ProgIdle ==
    /\ NOTION_KEY = NoneStr
    /\ stdin = <<>>
    /\ service = <<>>
    /\ fs = <<>>
    /\ dirs = {}
    /\ pc = "idle"
    /\ mapping = <<>>
    /\ i = 0
    /\ blocks = <<>>
    /\ j = 0
    /\ md = <<>>
    /\ gac = <<>>
    /\ events = <<>>
    /\ calls = <<>>
    /\ stderr = ""
    /\ exit_code = -1
    /\ run = 0
    /\ snapshot = <<>>

InitRt ==
    /\ ProgIdle
    /\ arg \in SeqsUpTo(RunInputs, MaxRuns)
    /\ ret = Pending

CallRt ==
    /\ ~ret.done
    /\ ret' = Returned(Ok(rt_to_md(arg)))
    /\ UNCHANGED <<progVars, arg>>

NextRt == CallRt

SpecRt == InitRt /\ [][NextRt]_vars

(***************************************************************************)
(* The block renderer on its own                                           *)
(***************************************************************************)
TypeInputs ==
    EnumeratedTypes
    \cup {<<"callout">>, <<"divider">>, <<"heading", "4">>, <<"heading", "x">>,
          <<"heading", "">>, <<"heading", "1", "x">>, <<"heading">>, NoneStr}

RichTextInputs ==
    {<<>>, <<PlainRun(<<" ">>)>>, <<PlainRun(<<"a">>)>>,
     <<Run(<<"a">>, FALSE, TRUE, FALSE, FALSE, NoneStr), PlainRun(<<" ">>)>>}

PayloadInputs ==
    {NoPayload, OtherPayload}
    \cup {Dict(FALSE, <<>>, ch, <<>>, <<"t">>) : ch \in BOOLEAN}
    \cup {Dict(TRUE, rich, ch, lang, <<"t">>) :
            rich \in RichTextInputs, ch \in BOOLEAN, lang \in {<<>>, <<"p", "y">>}}

InitBlock ==
    /\ ProgIdle
    /\ arg \in {[block |-> Node("b", t, "false", p), indent |-> n] :
                  t \in TypeInputs, p \in PayloadInputs, n \in 0..1}
    /\ ret = Pending

CallBlock ==
    /\ ~ret.done
    /\ ret' = Returned(block_to_md(arg.block, arg.indent))
    /\ UNCHANGED <<progVars, arg>>

NextBlock == CallBlock

SpecBlock == InitBlock /\ [][NextBlock]_vars

(***************************************************************************)
(* The exporter                                                            *)
(***************************************************************************)
PageSize == 100

\* json.loads of an object: a repeated key keeps its first position and
\* takes its last value
RECURSIVE JsonLoads(_)
JsonLoads(pairs) ==
    IF pairs = <<>> THEN <<>>
    ELSE LET init == JsonLoads(SubSeq(pairs, 1, Len(pairs) - 1))
             last == pairs[Len(pairs)]
         IN  IF \E k \in 1..Len(init) : init[k].id = last.id
             THEN [k \in 1..Len(init) |-> IF init[k].id = last.id THEN last ELSE init[k]]
             ELSE Append(init, last)

\* the GET request of one loop iteration: the query string of line 28
Request(block_id, cursor) ==
    [block |-> block_id, page_size |-> PageSize, has_cursor |-> Truthy(cursor),
     start_cursor |-> IF Truthy(cursor) THEN cursor ELSE <<>>]

\* what the service answers
Known(req) ==
    /\ req.block \in DOMAIN service
    /\ (IF req.has_cursor THEN req.start_cursor ELSE First) \in DOMAIN service[req.block]
Response(req) ==
    service[req.block][IF req.has_cursor THEN req.start_cursor ELSE First]

NoCall == [block_id |-> "", out |-> <<>>, cursor |-> NoneStr, reqs |-> <<>>, received |-> <<>>]
StartCall(block_id) == [NoCall EXCEPT !.block_id = block_id]

\* a plausible slip: the page put in front of what was gathered
Extend_Front(out, res) == res.results \o out

\* out.extend(res.get('results', []))
Extend(out, res) == out \o res.results

\* a plausible slip: only an explicit false ends the loop
HasMore_NotFalse(res) == res.has_more # "false"

\* res.get('has_more'), as the condition of line 31 reads it
HasMore(res) == res.has_more = "true"

\* a plausible slip: the cursor is never advanced
NextCursor_Stale(cursor, res) == cursor

\* cursor = res.get('next_cursor')
NextCursor(cursor, res) == res.next_cursor

\* a plausible slip: the child_page exclusion forgotten
ShouldDescend_AnyType(b) == b.has_children = "true"

\* the condition of line 96
ShouldDescend(b) == b.has_children = "true" /\ b.type # <<"child", "page">>

\* a plausible slip: only an unset variable counts as missing
KeyMissing_NoneOnly(key) == key = NoneStr

\* not NOTION_KEY
KeyMissing(key) == ~Truthy(key)

\* a plausible slip: the file opened for appending
WriteFile_Append(old, content) == IF old = NoneStr THEN content ELSE old \o content

\* open(out_path, 'w') followed by one write
WriteFile(old, content) == content

\* os.path.dirname
Dirname(path) == SubSeq(path, 1, Len(path) - 1)

\* a plausible slip: the error swallowed and the request sent again
Propagate_Retry(at) == at

\* nothing catches an exception: where the process is after one is raised
Propagate(at) == "crashed"

\* a plausible slip: no newline after the kids
AppendKids_NoBlank(buf, rendered) == buf \o rendered

\* lines 98-100: the kids' renderings, then one newline
AppendKids(buf, rendered) == buf \o rendered \o << <<"\n">> >>

Ev(k, e) ==
    [k |-> k, e |-> e, id |-> "", path |-> <<>>, has_cursor |-> FALSE, cursor |-> <<>>,
     data |-> <<>>]
ReqEv(e, req) ==
    [Ev("req", e) EXCEPT !.id = req.block, !.has_cursor = req.has_cursor,
                         !.cursor = req.start_cursor]
MkdirEv(e, dir) == [Ev("mkdir", e) EXCEPT !.path = dir]
WriteEv(e, path, data) == [Ev("write", e) EXCEPT !.path = path, !.data = data]

Init ==
    /\ NOTION_KEY \in Keys
    /\ stdin \in Manifests
    /\ service \in Services
    /\ fs \in FileSystems
    /\ dirs = {}
    /\ pc = "start"
    /\ mapping = <<>>
    /\ i = 0
    /\ blocks = <<>>
    /\ j = 0
    /\ md = <<>>
    /\ gac = NoCall
    /\ events = <<>>
    /\ calls = <<>>
    /\ stderr = ""
    /\ exit_code = -1
    /\ run = 1
    /\ snapshot = fs
    /\ arg = <<>>
    /\ ret = Pending

\* main, lines 106-108
MainNoKey ==
    /\ pc = "start"
    /\ KeyMissing(NOTION_KEY)
    /\ stderr' = "Missing NOTION_KEY"
    /\ events' = Append(events, Ev("stderr", 0))
    /\ exit_code' = 2
    /\ pc' = "exit"
    /\ UNCHANGED <<NOTION_KEY, stdin, service, fs, dirs, mapping, i, blocks, j, md, gac,
                   calls, run, snapshot, arg, ret>>

\* main, lines 106 and 109
MainRead ==
    /\ pc = "start"
    /\ ~KeyMissing(NOTION_KEY)
    /\ mapping' = JsonLoads(stdin)
    /\ events' = Append(events, Ev("stdin", 0))
    /\ i' = 1
    /\ pc' = "loop"
    /\ UNCHANGED <<NOTION_KEY, stdin, service, fs, dirs, blocks, j, md, gac, calls, stderr,
                   exit_code, run, snapshot, arg, ret>>

\* main, lines 110-111, and export_page up to the call of line 92
MainNextEntry ==
    /\ pc = "loop"
    /\ i <= Len(mapping)
    /\ gac' = StartCall(mapping[i].id)
    /\ blocks' = <<>>
    /\ md' = <<>>
    /\ j' = 0
    /\ pc' = "fetch_top"
    /\ UNCHANGED <<NOTION_KEY, stdin, service, fs, dirs, mapping, i, events, calls, stderr,
                   exit_code, run, snapshot, arg, ret>>

\* main: the loop of line 110 is over
MainExit ==
    /\ pc = "loop"
    /\ i > Len(mapping)
    /\ exit_code' = 0
    /\ pc' = "done"
    /\ UNCHANGED <<NOTION_KEY, stdin, service, fs, dirs, mapping, i, blocks, j, md, gac,
                   events, calls, stderr, run, snapshot, arg, ret>>

\* get_all_children, one iteration of the loop of lines 27-33 whose request
\* is answered
Fetch ==
    /\ pc \in {"fetch_top", "fetch_kid"}
    /\ Len(gac.reqs) < MaxFetch
    /\ LET req == Request(gac.block_id, gac.cursor)
       IN  /\ Known(req)
           /\ LET res == Response(req)
                  frame == [gac EXCEPT !.out = Extend(@, res),
                                       !.reqs = Append(@, req),
                                       !.received = Append(@, res),
                                       !.cursor = IF HasMore(res) THEN NextCursor(@, res) ELSE @]
              IN  /\ gac' = frame
                  /\ events' = Append(events, ReqEv(i, req))
                  /\ IF HasMore(res)
                     THEN UNCHANGED <<pc, calls>>
                     ELSE /\ pc' = (IF pc = "fetch_top" THEN "got_top" ELSE "got_kid")
                          /\ calls' = Append(calls, [frame EXCEPT !.cursor = NoneStr])
    /\ UNCHANGED <<NOTION_KEY, stdin, service, fs, dirs, mapping, i, blocks, j, md, stderr,
                   exit_code, run, snapshot, arg, ret>>

\* get_all_children, line 29: the request fails (urlopen raises, or the body
\* is no JSON); nothing catches it, in export_page or in main
FetchFail ==
    /\ pc \in {"fetch_top", "fetch_kid"}
    /\ Len(gac.reqs) < MaxFetch
    /\ LET req == Request(gac.block_id, gac.cursor)
       IN  /\ gac' = [gac EXCEPT !.reqs = Append(@, req)]
           /\ events' = events \o <<ReqEv(i, req), Ev("fail", i)>>
    /\ pc' = Propagate(pc)
    /\ exit_code' = IF Propagate(pc) = "crashed" THEN 1 ELSE exit_code
    /\ UNCHANGED <<NOTION_KEY, stdin, service, fs, dirs, mapping, i, blocks, j, md, calls,
                   stderr, run, snapshot, arg, ret>>

\* export_page, lines 92-93
ExportTop ==
    /\ pc = "got_top"
    /\ blocks' = gac.out
    /\ md' = << <<"#", " ">> \o mapping[i].title \o <<"\n", "\n">> >>
    /\ j' = 1
    /\ gac' = NoCall
    /\ pc' = "render"
    /\ UNCHANGED <<NOTION_KEY, stdin, service, fs, dirs, mapping, i, events, calls, stderr,
                   exit_code, run, snapshot, arg, ret>>

\* export_page, lines 94-97: one direct child
ExportBlock ==
    /\ pc = "render"
    /\ j <= Len(blocks)
    /\ LET b == blocks[j]
           r == block_to_md(b, 0)
       IN  IF ~r.ok
           THEN /\ pc' = "crashed"
                /\ exit_code' = 1
                /\ events' = Append(events, Ev("raise", i))
                /\ UNCHANGED <<md, gac, j>>
           ELSE /\ md' = Append(md, r.s)
                /\ UNCHANGED <<exit_code, events>>
                /\ IF ShouldDescend(b)
                   THEN /\ gac' = StartCall(b.id)
                        /\ pc' = "fetch_kid"
                        /\ UNCHANGED j
                   ELSE /\ j' = j + 1
                        /\ UNCHANGED <<gac, pc>>
    /\ UNCHANGED <<NOTION_KEY, stdin, service, fs, dirs, mapping, i, blocks, calls, stderr,
                   run, snapshot, arg, ret>>

\* export_page, lines 97-100: the kids of one direct child
ExportKids ==
    /\ pc = "got_kid"
    /\ LET kids == gac.out
           r == [k \in 1..Len(kids) |-> block_to_md(kids[k], 1)]
       IN  IF \E k \in 1..Len(kids) : ~r[k].ok
           THEN /\ pc' = "crashed"
                /\ exit_code' = 1
                /\ events' = Append(events, Ev("raise", i))
                /\ UNCHANGED <<md, j>>
           ELSE /\ md' = AppendKids(md, [k \in 1..Len(kids) |-> r[k].s])
                /\ j' = j + 1
                /\ pc' = "render"
                /\ UNCHANGED <<exit_code, events>>
    /\ gac' = NoCall
    /\ UNCHANGED <<NOTION_KEY, stdin, service, fs, dirs, mapping, i, blocks, calls, stderr,
                   run, snapshot, arg, ret>>

\* export_page, lines 101-103; os.makedirs('') raises
ExportWrite ==
    /\ pc = "render"
    /\ j > Len(blocks)
    /\ LET path == mapping[i].path
           dir == Dirname(path)
       IN  IF dir = <<>>
           THEN /\ pc' = "crashed"
                /\ exit_code' = 1
                /\ events' = Append(events, Ev("raise", i))
                /\ UNCHANGED <<fs, dirs, i>>
           ELSE /\ dirs' = dirs \cup {SubSeq(dir, 1, k) : k \in 1..Len(dir)}
                /\ fs' = [fs EXCEPT ![path] = WriteFile(@, RStrip(Join(md)) \o <<"\n">>)]
                /\ events' = events \o <<MkdirEv(i, dir), WriteEv(i, path, fs'[path])>>
                /\ i' = i + 1
                /\ pc' = "loop"
                /\ UNCHANGED exit_code
    /\ UNCHANGED <<NOTION_KEY, stdin, service, mapping, blocks, j, md, gac, calls, stderr,
                   run, snapshot, arg, ret>>

\* the exporter is run again on the same manifest against the same service
Rerun ==
    /\ pc = "done"
    /\ run = 1
    /\ run' = 2
    /\ snapshot' = fs
    /\ pc' = "start"
    /\ mapping' = <<>>
    /\ i' = 0
    /\ blocks' = <<>>
    /\ j' = 0
    /\ md' = <<>>
    /\ events' = <<>>
    /\ calls' = <<>>
    /\ exit_code' = -1
    /\ UNCHANGED <<NOTION_KEY, stdin, service, fs, dirs, gac, stderr, arg, ret>>

Next ==
    \/ MainNoKey
    \/ MainRead
    \/ MainNextEntry
    \/ MainExit
    \/ Fetch
    \/ FetchFail
    \/ ExportTop
    \/ ExportBlock
    \/ ExportKids
    \/ ExportWrite
    \/ Rerun

Spec == Init /\ [][Next]_vars

\* the process is single-threaded and blocks on each request until it is
\* answered or fails: a step that can be taken is taken
FairSpec == Spec /\ WF_vars(Next)

(***************************************************************************)
(* What the service holds, read off its data                               *)
(***************************************************************************)
Range(f) == {f[k] : k \in DOMAIN f}

IsPrefix(a, b) == Len(a) <= Len(b) /\ a = SubSeq(b, 1, Len(a))

RECURSIVE Flatten(_)
Flatten(pages) ==
    IF pages = <<>> THEN <<>> ELSE Head(pages).results \o Flatten(Tail(pages))

\* following next_cursor from the page under key reaches a last page
RECURSIVE ChainEnds(_, _, _)
ChainEnds(n, key, fuel) ==
    /\ key \in DOMAIN service[n]
    /\ \/ service[n][key].has_more # "true"
       \/ /\ fuel > 1
          /\ Truthy(service[n][key].next_cursor)
          /\ ChainEnds(n, service[n][key].next_cursor, fuel - 1)

WellFormed(n) ==
    n \in DOMAIN service /\ ChainEnds(n, First, Cardinality(DOMAIN service[n]))

\* the pages from the one under key to the last one
RECURSIVE Walk(_, _)
Walk(n, key) ==
    IF service[n][key].has_more # "true" THEN <<service[n][key]>>
    ELSE <<service[n][key]>> \o Walk(n, service[n][key].next_cursor)

Children(n) == Flatten(Walk(n, First))

InFetch == pc \in {"fetch_top", "fetch_kid"}

\* the calls of get_all_children of this run: those that returned and the one running
Frames == Range(calls) \cup (IF gac.reqs # <<>> THEN {gac} ELSE {})

(***************************************************************************)
(* C1: get_all_children returns exactly the concatenation of the results   *)
(* of every page it received, in the order received, the pages received    *)
(* being those reached by following next_cursor from the first page until  *)
(* a page reports has_more false.                                          *)
(***************************************************************************)
C1_ConcatenatesPages ==
    \A c \in Range(calls) :
        /\ WellFormed(c.block_id)
        /\ c.received = Walk(c.block_id, First)
        /\ c.out = Flatten(c.received)
        /\ Len(c.reqs) = Len(c.received)

C1_Witness ==
    \E c \in Range(calls) :
        /\ Len(c.received) = 3
        /\ c.out = <<G4, G5>>
        /\ c.received[2].results = <<>>

(***************************************************************************)
(* C2: when the first response reports has_more false, or omits it, the    *)
(* call sends exactly one request and returns that response's results.     *)
(***************************************************************************)
C2_SinglePageSingleFetch ==
    \A c \in Frames :
        (Len(c.received) >= 1 /\ c.received[1].has_more \in {"false", "absent"}) =>
            /\ Len(c.reqs) = 1
            /\ c.out = c.received[1].results
            /\ (c = gac => ~InFetch)

C2_Witness ==
    \E c \in Range(calls) :
        /\ c.received[1].has_more = "absent"
        /\ Truthy(c.received[1].next_cursor)
        /\ c.out = <<B4>>

(***************************************************************************)
(* C3: during one export_page call children are fetched only for the page  *)
(* id and for each direct child with has_children true whose type is not   *)
(* child_page; never for a child_page, for a direct child without          *)
(* children, or for a grandchild.                                          *)
(***************************************************************************)
C3_DirectChildren(page) == UNION {Range(pg.results) : pg \in Range(service[page])}

C3_Requested(e) == {ev.id : ev \in {x \in Range(events) : x.k = "req" /\ x.e = e}}

C3_FetchesOnlyTwoLevels ==
    \A ev \in Range(events) :
        ev.k = "req" =>
            /\ ev.e \in 1..Len(mapping)
            /\ \/ ev.id = mapping[ev.e].id
               \/ /\ mapping[ev.e].id \in DOMAIN service
                  /\ \E b \in C3_DirectChildren(mapping[ev.e].id) :
                        /\ b.id = ev.id
                        /\ b.has_children = "true"
                        /\ b.type # <<"child", "page">>

C3_Witness ==
    /\ pc = "loop"
    /\ \E e \in 1..Len(mapping) :
        /\ e < i
        /\ mapping[e].id = "P1"
        /\ C3_Requested(e) = {"P1", "B1", "B5"}
        /\ {B2, B3} \subseteq C3_DirectChildren("P1")
        /\ {"B2", "G1", "G4"} \subseteq DOMAIN service

(***************************************************************************)
(* C4: if a fetch request fails during the export of entry i, the run      *)
(* aborts: the request is not retried, no further request is sent, no file *)
(* is written for entry i or a later entry, and the files written for the  *)
(* entries before i stay as written.                                       *)
(***************************************************************************)
C4_Writes(p) == {k \in 1..Len(events) : events[k].k = "write" /\ events[k].path = p}

\* each file holds what the last write of this run put there, or what it
\* held when the run began
C4_FilesAsWritten ==
    \A p \in Paths :
        IF C4_Writes(p) = {}
        THEN fs[p] = snapshot[p]
        ELSE fs[p] = events[CHOOSE k \in C4_Writes(p) : \A l \in C4_Writes(p) : l <= k].data

C4_FetchFailureAborts ==
    \A k \in 1..Len(events) :
        events[k].k = "fail" =>
            /\ k = Len(events)
            /\ k > 1 /\ events[k - 1].k = "req" /\ events[k - 1].e = events[k].e
            /\ pc = "crashed"
            /\ ~ENABLED Next
            /\ events[k].e = i
            /\ \A l \in 1..Len(events) :
                  events[l].k = "write" => events[l].e < i
            /\ \A e \in 1..(i - 1) :
                  \E l \in 1..Len(events) : events[l].k = "write" /\ events[l].e = e
            /\ C4_FilesAsWritten

C4_Witness ==
    /\ pc = "crashed"
    /\ i = 2
    /\ events[Len(events)].k = "fail"
    /\ \E l \in 1..Len(events) : events[l].k = "write" /\ events[l].e = 1
    /\ fs[mapping[1].path] # NoFile
    /\ fs[PathB] = NoFile

(***************************************************************************)
(* C5: when the credential is absent or empty, main exits with status 2    *)
(* after a diagnostic on the error stream, before any request is sent,     *)
(* before the manifest is read and before any directory or file is made.   *)
(***************************************************************************)
C5_MissingKeyExits ==
    (pc # "idle" /\ NOTION_KEY \in {NoneStr, <<>>}) =>
        /\ pc \in {"start", "exit"}
        /\ mapping = <<>> /\ calls = <<>> /\ gac = NoCall
        /\ dirs = {} /\ fs = snapshot
        /\ pc = "start" => (events = <<>> /\ exit_code = -1 /\ ENABLED Next)
        /\ pc = "exit" =>
              /\ events = <<Ev("stderr", 0)>>
              /\ stderr # ""
              /\ exit_code = 2
              /\ ~ENABLED Next

C5_Witness ==
    /\ pc = "exit"
    /\ NOTION_KEY = <<>>
    /\ stdin # <<>>
    /\ exit_code = 2

(***************************************************************************)
(* The document export_page is to write for one manifest entry, read off   *)
(* the service's data                                                      *)
(***************************************************************************)
Rendered(nodes, indent) == Join([k \in 1..Len(nodes) |-> block_to_md(nodes[k], indent).s])

Qualifies(b) == b.has_children = "true" /\ b.type # <<"child", "page">>

RECURSIVE Body(_)
Body(nodes) ==
    IF nodes = <<>> THEN <<>>
    ELSE block_to_md(Head(nodes), 0).s
         \o (IF Qualifies(Head(nodes))
             THEN Rendered(Children(Head(nodes).id), 1) \o <<"\n">>
             ELSE <<>>)
         \o Body(Tail(nodes))

Document(entry) ==
    RStrip(<<"#", " ">> \o entry.title \o <<"\n", "\n">> \o Body(Children(entry.id))) \o <<"\n">>

(***************************************************************************)
(* C8: running the exporter twice on the same manifest against the same    *)
(* remote data leaves each destination file with the same content after    *)
(* the second run as after the first: the second write replaces the prior  *)
(* content, and the content depends only on the title and the nodes.       *)
(***************************************************************************)
C8_LastEntry(p) ==
    CHOOSE e \in 1..Len(mapping) :
        /\ mapping[e].path = p
        /\ \A f \in 1..Len(mapping) : mapping[f].path = p => f <= e

C8_SecondRunIdentical ==
    (pc = "done" /\ run = 2) =>
        /\ fs = snapshot
        /\ \A p \in Paths :
              (\E e \in 1..Len(mapping) : mapping[e].path = p) =>
                  fs[p] = Document(mapping[C8_LastEntry(p)])

C8_Witness ==
    /\ pc = "done" /\ run = 2
    /\ Len(mapping) = 2
    /\ mapping[1].id = "P1"
    /\ service = ServiceDeep
    /\ fs[PathA] = snapshot[PathA]
    /\ Len(fs[PathA]) > 20
    /\ C4_Writes(PathA) # {}

(***************************************************************************)
(* C9: the events of a run are strictly sequential: entries are exported   *)
(* in mapping-iteration order and the file of entry i is written before    *)
(* the first request of entry i+1; within one export the page's direct     *)
(* children are fetched first, then the children of the qualifying direct  *)
(* children in their order (each one's output right after its parent's     *)
(* rendering and followed by one blank line), and the single write comes   *)
(* after every fetch of that page.                                         *)
(***************************************************************************)
RECURSIVE Collapse(_)
Collapse(ids) ==
    IF Len(ids) <= 1 THEN ids
    ELSE IF ids[1] = ids[2] THEN Collapse(Tail(ids))
    ELSE <<ids[1]>> \o Collapse(Tail(ids))

C9_IsReqOf(ev, e) == ev.k = "req" /\ ev.e = e

C9_ReqIds(e) ==
    LET evs == SelectSeq(events, LAMBDA ev : C9_IsReqOf(ev, e))
    IN  Collapse([k \in 1..Len(evs) |-> evs[k].id])

C9_FetchOrder(page) ==
    IF ~WellFormed(page) THEN <<page>>
    ELSE LET q == SelectSeq(Children(page), Qualifies)
         IN  <<page>> \o [k \in 1..Len(q) |-> q[k].id]

C9_StrictlySequential ==
    /\ \A k \in 1..Len(events), l \in 1..Len(events) :
          k < l =>
            /\ events[k].e <= events[l].e
            /\ events[k].k = "write" => events[l].e > events[k].e
    /\ \A e \in 1..Len(mapping) :
          /\ IsPrefix(C9_ReqIds(e), C9_FetchOrder(mapping[e].id))
          /\ e < i => (\E k \in 1..Len(events) : events[k].k = "write" /\ events[k].e = e)
    /\ \A k \in 1..Len(events) :
          events[k].k = "write" =>
            /\ events[k].path = mapping[events[k].e].path
            /\ events[k].data = Document(mapping[events[k].e])
            /\ C9_ReqIds(events[k].e) = C9_FetchOrder(mapping[events[k].e].id)

C9_Witness ==
    /\ pc = "done"
    /\ service = ServiceDeep
    /\ Len(mapping) = 2
    /\ mapping[1].id = "P1"
    /\ C9_ReqIds(1) = <<"P1", "B1", "B5">>
    /\ C9_ReqIds(2) = <<"P2">>
    /\ \E k \in 1..Len(events) :
          /\ events[k].k = "write" /\ events[k].e = 1
          /\ events[k].data =
               <<"#", " ", "T", "\n", "\n",
                 "a", "\n", "\n",
                 " ", " ", "-", " ", "g", "\n", "\n", "\n",
                 "-", " ", "t", "\n",
                 "-", " ", "[", "x", "]", " ", "d", "\n",
                 "*", "*", "c", "*", "*", "\n", "\n",
                 " ", " ", "1", ".", " ", "1", "\n",
                 BT, BT, BT, "p", "y", "\n", "x", "\n", BT, BT, BT, "\n">>

(***************************************************************************)
(* C10: the pagination loop makes progress and terminates: every request   *)
(* after the first carries as start_cursor the next_cursor of the          *)
(* preceding response, the loop stops at the first response whose has_more *)
(* is false, and the call terminates whenever the chain of pages is        *)
(* finite, for every cursor value the service may return.                  *)
(* As stated: each later request carries the preceding next_cursor.        *)
(***************************************************************************)
C10_CarriesPrecedingCursor ==
    \A c \in Frames :
        \A k \in 2..Len(c.reqs) :
            /\ c.reqs[k].has_cursor
            /\ c.reqs[k].start_cursor = c.received[k - 1].next_cursor

(***************************************************************************)
(* C10, amended: a later request carries the preceding next_cursor when    *)
(* that is a non-empty string and carries no start_cursor when it is null  *)
(* or empty; no request follows a response whose has_more is false; and    *)
(* the call terminates when the chain of pages is finite and every page    *)
(* with has_more true has a non-empty next_cursor.                         *)
(***************************************************************************)
C10_Progress ==
    \A c \in Frames :
        /\ \A k \in 2..Len(c.reqs) :
              /\ c.received[k - 1].has_more = "true"
              /\ IF Truthy(c.received[k - 1].next_cursor)
                 THEN /\ c.reqs[k].has_cursor
                      /\ c.reqs[k].start_cursor = c.received[k - 1].next_cursor
                 ELSE ~c.reqs[k].has_cursor
        /\ ~c.reqs[1].has_cursor
        /\ (c = gac /\ InFetch /\ c.received # <<>>) =>
              c.received[Len(c.received)].has_more = "true"
        /\ WellFormed(c.block_id) => Len(c.reqs) <= Len(Walk(c.block_id, First))

C10_FollowsCursorAndTerminates ==
    /\ []C10_Progress
    /\ (InFetch /\ WellFormed(gac.block_id)) ~> ~InFetch

C10_Witness ==
    /\ pc = "got_kid"
    /\ Len(gac.reqs) = 3
    /\ gac.reqs[2].start_cursor = Cur2
    /\ gac.reqs[3].start_cursor = Cur3
    /\ WellFormed(gac.block_id)

(***************************************************************************)
(* C7: rt_to_md wraps each run's plain_text in the fixed order code, bold, *)
(* italic, strikethrough, link, applying only the wraps whose flag is set  *)
(* (link outermost, code span innermost); a run with no flag and no href   *)
(* renders as its plain_text; runs are concatenated with no separator.     *)
(***************************************************************************)
C7_Open(rt) ==
    (IF Truthy(rt.href) THEN <<"[">> ELSE <<>>)
    \o (IF rt.strikethrough THEN <<"~", "~">> ELSE <<>>)
    \o (IF rt.italic THEN <<"*">> ELSE <<>>)
    \o (IF rt.bold THEN <<"*", "*">> ELSE <<>>)
    \o (IF rt.code THEN <<BT>> ELSE <<>>)

C7_Close(rt) ==
    (IF rt.code THEN <<BT>> ELSE <<>>)
    \o (IF rt.bold THEN <<"*", "*">> ELSE <<>>)
    \o (IF rt.italic THEN <<"*">> ELSE <<>>)
    \o (IF rt.strikethrough THEN <<"~", "~">> ELSE <<>>)
    \o (IF Truthy(rt.href) THEN <<"]", "(">> \o rt.href \o <<")">> ELSE <<>>)

C7_Unstyled(rt) ==
    ~rt.code /\ ~rt.bold /\ ~rt.italic /\ ~rt.strikethrough /\ ~Truthy(rt.href)

C7_Rendered == [k \in 1..Len(arg) |-> C7_Open(arg[k]) \o arg[k].plain_text \o C7_Close(arg[k])]

C7_FixedWrapOrder ==
    (pc = "idle" /\ ret.done) =>
        /\ ret.ok
        /\ ret.s = Join(C7_Rendered)
        /\ (Len(arg) = 1 /\ C7_Unstyled(arg[1])) => ret.s = arg[1].plain_text

C7_Witness ==
    /\ pc = "idle" /\ ret.done /\ Len(arg) = 2
    /\ arg[1] = Run(<<"a">>, TRUE, TRUE, TRUE, TRUE, <<"u">>)
    /\ C7_Unstyled(arg[2])
    /\ ret.s = <<"[", "~", "~", "*", "*", "*", BT, "a", BT, "*", "*", "*", "~", "~", "]",
                 "(", "u", ")", "a">>

(***************************************************************************)
(* C6: for every node whose type is not one of the enumerated types        *)
(* (a missing type and a type that merely begins with heading_ included),  *)
(* block_to_md returns without raising: the indented inline text and two   *)
(* newlines when the payload has a rich_text field rendering to non-blank  *)
(* text, and the empty string otherwise.                                   *)
(***************************************************************************)
C6_Fallback(block, indent) ==
    LET p == block.payload
        txt == rt_to_md(p.rich_text)
    IN  IF p.kind = "dict" /\ p.has_rt /\ StripTruthy(txt)
        THEN Rep(" ", 2 * indent) \o txt \o <<"\n", "\n">>
        ELSE <<>>

C6_UnknownTypeNeverRaises ==
    (pc = "idle" /\ ret.done /\ arg.block.type \notin EnumeratedTypes) =>
        /\ ret.ok
        /\ ret.s = C6_Fallback(arg.block, arg.indent)

====
